---- MODULE Spec2Model ----
(***************************************************************************)
(* MainProcess of unstructured/ingest/main.py: the run sequence            *)
(* initialize -> get_ingest_docs -> filter -> mp.Pool / pool.map ->        *)
(* cleanup, with the worker processes of the pool as concurrent actors.    *)
(*                                                                         *)
(* A raised exception that nothing in run() catches ends the run: the      *)
(* model records it as pc = "done" with outcome = "error".  A normal       *)
(* return of run() is pc = "done" with outcome = "ok".                     *)
(***************************************************************************)
EXTENDS Integers, Sequences, FiniteSets, TLC

\* Largest number of handles the connector enumerates.
MaxDocs == 5
\* Largest value of num_processes.
MaxProcs == 2

Handles == 1..MaxDocs

\* _filter_docs_with_outputs returns None when nothing is left; None and the
\* empty list are both falsy for `if not docs`.
None == << >>

VARIABLES
    reprocess,      \* self.reprocess
    num_processes,  \* self.num_processes
    source,         \* the handles the connector would enumerate, in order
    output,         \* handles whose structured output exists (doc.has_output())
    output0,        \* output as it was when the run started
    pc,             \* position of run()
    outcome,        \* "none" while running, "ok" on return, "error" on a raise
    connInit,       \* result of doc_connector.initialize()
    procInit,       \* result of doc_processor initialize()
    enumRes,        \* result of doc_connector.get_ingest_docs()
    docs,           \* the local `docs` of run()
    checked,        \* handles whose has_output() was called
    logged,         \* messages written with logger.info by the filter
    poolStarted,    \* mp.Pool(...) was constructed
    poolAlive,      \* the pool's workers exist (until terminate())
    submitted,      \* the iterable handed to pool.map
    chunks,         \* task batches of pool.map
    taskqueue,      \* indices of chunks not yet taken by a worker
    chunkres,       \* per chunk: "none", "ok" or "fail"
    worker,         \* per worker process: chunk held, position, in a call
    status,         \* per handle: "idle", "running", "done", "failed"
    attempts,       \* per handle: number of calls of doc_processor_fn
    mapRaised,      \* pool.map re-raised a worker's exception
    cleanupCalls,   \* number of calls of doc_connector.cleanup()
    runNo,          \* which run over the source this is (1 = the first)
    prev,           \* how the run before this one went
    opts,           \* main(): the command line options
    mpc,            \* main(): its position ("none": main() is not in play)
    cacheExists,    \* main(): ~/.cache/unstructured/ingest exists
    cacheCreated,   \* main(): cache_path.mkdir(...) was called
    hashed,         \* main(): which source's identity went into sha256
    download_dir,   \* main(): the local download_dir after line 305
    connector,      \* main(): the doc_connector constructed
    mainOutcome,    \* main(): "none", "ValueError", "exit1", "run", ...
    mainLog         \* main(): warnings and errors logged

cfgVars  == << reprocess, num_processes, source, output0 >>
runVars  == << pc, outcome, connInit, procInit, enumRes, docs, checked, logged,
               cleanupCalls >>
poolVars == << poolStarted, poolAlive, submitted, chunks, taskqueue, chunkres,
               worker, mapRaised >>
docVars  == << output, status, attempts >>
mainVars == << opts, mpc, cacheExists, cacheCreated, hashed, download_dir,
               connector, mainOutcome, mainLog >>
hostVars == << runNo, prev, mainVars >>
vars     == << cfgVars, runVars, poolVars, docVars, hostVars >>

----------------------------------------------------------------------------
(* Pure helpers *)

\* <<1, ..., n>>
Iota(n) == [i \in 1..n |-> i]

\* doc.has_output()
HasOutput(h) == h \in output

\* [doc for doc in docs if not doc.has_output()]
KeepWithoutOutput(ds) == SelectSeq(ds, LAMBDA h : ~HasOutput(h))

\* Mutant: the `not` of the comprehension is lost.
FilterKeepsDocsWithOutput(ds) ==
    LET kept == SelectSeq(ds, LAMBDA h : HasOutput(h))
    IN  IF Len(kept) = 0 THEN None ELSE kept

\* Mutant: the filtered list is dropped and the list passed in is returned.
FilterReturnsInput(ds) == ds

\* MainProcess._filter_docs_with_outputs: the value returned.
FilterDocsWithOutputs(ds) ==
    LET kept == KeepWithoutOutput(ds)
    IN  IF Len(kept) = 0 THEN None ELSE kept

\* MainProcess._filter_docs_with_outputs: the message logged, if any.
FilterLog(ds) ==
    LET kept == KeepWithoutOutput(ds)
    IN  IF Len(kept) = 0 THEN {"all_docs_have_outputs"}
        ELSE IF Len(kept) # Len(ds) THEN {"skipping_some"}
        ELSE {}

\* pool.map without chunksize: divmod(len(iterable), len(pool) * 4), rounded
\* up; 0 for an empty iterable.
ChunkSize(n, p) ==
    IF n = 0 THEN 0
    ELSE (n \div (p * 4)) + (IF n % (p * 4) # 0 THEN 1 ELSE 0)

\* Pool._get_tasks: the iterable cut into batches of cs items.
GetTasks(ds, cs) ==
    IF cs = 0 THEN << >>
    ELSE LET nb == (Len(ds) \div cs) + (IF Len(ds) % cs # 0 THEN 1 ELSE 0)
         IN  [c \in 1..nb |->
                SubSeq(ds, (c - 1) * cs + 1,
                       IF c * cs < Len(ds) THEN c * cs ELSE Len(ds))]

\* Mutant: only the first document is handed over (the single-process
\* debugging line of run(), docs[0], left in).
MapIterableFirstOnly(ds) == IF Len(ds) = 0 THEN ds ELSE SubSeq(ds, 1, 1)

\* pool.map(self.doc_processor_fn, docs): the iterable handed to the pool.
MapIterable(ds) == ds

IdleWorker == [chunk |-> 0, pos |-> 0, running |-> FALSE]

\* No run came before.
NoPrev == [ran |-> FALSE, reprocess |-> FALSE, outcome |-> "none",
           allDone |-> FALSE, several |-> FALSE]

----------------------------------------------------------------------------
(* main(): option values and pure helpers *)

\* An option is << >> when it was not given (None), else << value >>.
Unset == << >>
Some(v) == << v >>

\* `if option:` of Python.
Truthy(o) == o # Unset /\ o[1] # ""

\* str(x) as the f-strings of lines 280 and 284 apply it: None gives "None".
PyStr(o) == IF o = Unset THEN "None" ELSE o[1]

\* Values tried for the options.
S3Urls == {"s3://b/k"}
GitUrls == {"h/r", "h/r_x"}
GitBranches == {"y", "x_y", "None"}
SubredditNames == {"sub"}
WikipediaTitles == {"title"}
DriveIds == {"drive"}
DownloadDirs == {"/dl"}

Opt(S) == {Unset} \cup {Some(v) : v \in S}

Options ==
    [s3_url : Opt(S3Urls), github_url : Opt(GitUrls), gitlab_url : Opt(GitUrls),
     subreddit_name : Opt(SubredditNames),
     wikipedia_page_title : Opt(WikipediaTitles), drive_id : Opt(DriveIds),
     git_branch : Opt(GitBranches), download_dir : Opt(DownloadDirs),
     preserve_downloads : BOOLEAN]

NoOptions ==
    [s3_url |-> Unset, github_url |-> Unset, gitlab_url |-> Unset,
     subreddit_name |-> Unset, wikipedia_page_title |-> Unset, drive_id |-> Unset,
     git_branch |-> Unset, download_dir |-> Unset, preserve_downloads |-> FALSE]

\* Path.home() / ".cache" / "unstructured" / "ingest"
CachePath == "~/.cache/unstructured/ingest"

\* hashlib.sha256(text.encode("utf-8")).hexdigest()[:10], taken as injective:
\* the digest stands for exactly the text that went in.
Fingerprint(text) == "sha256(" \o text \o ")[:10]"

NoDir == [root |-> "none", name |-> ""]
NoHash == [kind |-> "none", text |-> ""]
NoConnector == [kind |-> "none", download_dir |-> NoDir]

\* f"{url}_{git_branch}"
GitIdentity(url, branch) == url \o "_" \o PyStr(branch)

\* Mutant: the gitlab branch of the hashing chain is tried before github's.
HashedSourceGitlabFirst(o) ==
    IF Truthy(o.s3_url) THEN "s3"
    ELSE IF Truthy(o.gitlab_url) THEN "gitlab"
    ELSE IF Truthy(o.github_url) THEN "github"
    ELSE IF Truthy(o.subreddit_name) THEN "reddit"
    ELSE IF Truthy(o.wikipedia_page_title) THEN "wikipedia"
    ELSE IF Truthy(o.drive_id) THEN "drive"
    ELSE "none"

\* The if/elif chain of lines 276-299: the source whose identity is hashed.
HashedSource(o) ==
    IF Truthy(o.s3_url) THEN "s3"
    ELSE IF Truthy(o.github_url) THEN "github"
    ELSE IF Truthy(o.gitlab_url) THEN "gitlab"
    ELSE IF Truthy(o.subreddit_name) THEN "reddit"
    ELSE IF Truthy(o.wikipedia_page_title) THEN "wikipedia"
    ELSE IF Truthy(o.drive_id) THEN "drive"
    ELSE "none"

\* Lines 276-297: the text handed to sha256 for the source of kind k.
HashedText(o, k) ==
    CASE k = "s3" -> o.s3_url[1]
      [] k = "github" -> GitIdentity(o.github_url[1], o.git_branch)
      [] k = "gitlab" -> GitIdentity(o.gitlab_url[1], o.git_branch)
      [] k = "reddit" -> o.subreddit_name[1]
      [] k = "wikipedia" -> o.wikipedia_page_title[1]
      [] k = "drive" -> o.drive_id[1]
      [] OTHER -> ""

\* The if/elif chain of lines 306-392: the connector constructed.
ConnectorSource(o) ==
    IF Truthy(o.s3_url) THEN "s3"
    ELSE IF Truthy(o.github_url) THEN "github"
    ELSE IF Truthy(o.gitlab_url) THEN "gitlab"
    ELSE IF Truthy(o.subreddit_name) THEN "reddit"
    ELSE IF Truthy(o.wikipedia_page_title) THEN "wikipedia"
    ELSE IF Truthy(o.drive_id) THEN "drive"
    ELSE "none"

\* Mutant: the default directory is derived even when --download-dir is given.
AlwaysDefaultDir(o) == TRUE

\* `if not download_dir:` of line 272.
NeedsDefaultDir(o) == ~Truthy(o.download_dir)

\* main() is not in play: MainProcess was constructed directly.
MainNotInPlay ==
    /\ opts = NoOptions
    /\ mpc = "none"
    /\ cacheExists = FALSE
    /\ cacheCreated = FALSE
    /\ hashed = NoHash
    /\ download_dir = NoDir
    /\ connector = NoConnector
    /\ mainOutcome = "none"
    /\ mainLog = {}

----------------------------------------------------------------------------
\* A MainProcess just constructed: run() has not begun.
RunFresh ==
    /\ pc = "start"
    /\ outcome = "none"
    /\ connInit = "none"
    /\ procInit = "none"
    /\ enumRes = "none"
    /\ docs = << >>
    /\ checked = {}
    /\ logged = {}
    /\ poolStarted = FALSE
    /\ poolAlive = FALSE
    /\ submitted = << >>
    /\ chunks = << >>
    /\ taskqueue = << >>
    /\ chunkres = << >>
    /\ worker = << >>
    /\ status = [h \in Handles |-> "idle"]
    /\ attempts = [h \in Handles |-> 0]
    /\ mapRaised = FALSE
    /\ cleanupCalls = 0
    /\ runNo = 1
    /\ prev = NoPrev

Init ==
    /\ reprocess \in BOOLEAN
    /\ num_processes \in 1..MaxProcs
    /\ \E n \in 0..MaxDocs : source = Iota(n)
    /\ output \in SUBSET (1..Len(source))
    /\ output0 = output
    /\ MainNotInPlay
    /\ RunFresh

----------------------------------------------------------------------------
(* run(): the steps before the pool *)

Range(s) == {s[i] : i \in DOMAIN s}

\* Mutant: a failure of doc_connector.initialize() is swallowed.
ConnectorInitializeSwallowed(ok) == "proc_init"

\* initialize(): where run() stands after self.doc_connector.initialize();
\* an exception leaves run() at once.
AfterConnectorInitialize(ok) == IF ok THEN "proc_init" ELSE "done"

\* initialize(): where run() stands after the doc processor's initialize().
AfterProcessorInitialize(ok) == IF ok THEN "enumerate" ELSE "done"

\* Mutant: a failure of get_ingest_docs() is swallowed.
GetIngestDocsSwallowed(ok) == "filter"

\* run(): where it stands after self.doc_connector.get_ingest_docs().
AfterGetIngestDocs(ok) == IF ok THEN "filter" ELSE "done"

\* Mutant: the `if not docs: return` is missing.
AfterFilterNoReturn(ds) == "pool"

\* run(): `if not docs: return`, else on to the pool.
AfterFilter(ds) == IF Len(ds) = 0 THEN "done" ELSE "pool"

\* self.doc_connector.initialize() (first half of MainProcess.initialize)
ConnectorInitialize ==
    /\ pc = "start"
    /\ \E ok \in BOOLEAN :
        /\ connInit' = IF ok THEN "ok" ELSE "failed"
        /\ pc' = AfterConnectorInitialize(ok)
        /\ outcome' = IF ok THEN outcome ELSE "error"
    /\ UNCHANGED << procInit, enumRes, docs, checked, logged, cleanupCalls >>
    /\ UNCHANGED << hostVars, cfgVars, poolVars, docVars >>

\* initialize() of the doc processor (second half of MainProcess.initialize)
ProcessorInitialize ==
    /\ pc = "proc_init"
    /\ \E ok \in BOOLEAN :
        /\ procInit' = IF ok THEN "ok" ELSE "failed"
        /\ pc' = AfterProcessorInitialize(ok)
        /\ outcome' = IF ok THEN outcome ELSE "error"
    /\ UNCHANGED << connInit, enumRes, docs, checked, logged, cleanupCalls >>
    /\ UNCHANGED << hostVars, cfgVars, poolVars, docVars >>

\* docs = self.doc_connector.get_ingest_docs()
GetIngestDocs ==
    /\ pc = "enumerate"
    /\ \E ok \in BOOLEAN :
        /\ enumRes' = IF ok THEN "ok" ELSE "failed"
        /\ docs' = IF ok THEN source ELSE docs
        /\ pc' = AfterGetIngestDocs(ok)
        /\ outcome' = IF ok THEN outcome ELSE "error"
    /\ UNCHANGED << connInit, procInit, checked, logged, cleanupCalls >>
    /\ UNCHANGED << hostVars, cfgVars, poolVars, docVars >>

\* if not self.reprocess: docs = self._filter_docs_with_outputs(docs);
\*                        if not docs: return
Filter ==
    /\ pc = "filter"
    /\ IF ~reprocess
       THEN /\ docs' = FilterDocsWithOutputs(docs)
            /\ checked' = Range(docs)
            /\ logged' = logged \cup FilterLog(docs)
            /\ pc' = AfterFilter(docs')
            /\ outcome' = IF pc' = "done" THEN "ok" ELSE outcome
       ELSE /\ pc' = "pool"
            /\ UNCHANGED << docs, checked, logged, outcome >>
    /\ UNCHANGED << connInit, procInit, enumRes, cleanupCalls >>
    /\ UNCHANGED << hostVars, cfgVars, poolVars, docVars >>

----------------------------------------------------------------------------
(* run(): the pool *)

\* Mutant: processes is left out of mp.Pool(...), which then starts one
\* worker per CPU of the machine (here: one more than any num_processes).
PoolProcessesCpuCount == MaxProcs + 1

\* mp.Pool(processes=self.num_processes, ...): the number of workers.
PoolProcesses == num_processes

\* Mutant: the pool is not used as a context manager, nothing terminates it.
PoolLeftRunning == TRUE

\* with mp.Pool(...) as pool: whether the workers live on after the block
\* (Pool.__exit__ calls terminate()).
PoolAliveAfterWith == FALSE

\* with mp.Pool(processes=self.num_processes, ...) as pool:
PoolStart ==
    /\ pc = "pool"
    /\ poolStarted' = TRUE
    /\ poolAlive' = TRUE
    /\ worker' = [w \in 1..PoolProcesses |-> IdleWorker]
    /\ pc' = "map_call"
    /\ UNCHANGED << submitted, chunks, taskqueue, chunkres, mapRaised >>
    /\ UNCHANGED << outcome, connInit, procInit, enumRes, docs, checked, logged,
                    cleanupCalls >>
    /\ UNCHANGED << hostVars, cfgVars, docVars >>

\* pool.map(self.doc_processor_fn, docs): the batches are queued
PoolMap ==
    /\ pc = "map_call"
    /\ submitted' = MapIterable(docs)
    /\ chunks' = GetTasks(submitted', ChunkSize(Len(submitted'), Len(worker)))
    /\ taskqueue' = Iota(Len(chunks'))
    /\ chunkres' = [c \in 1..Len(chunks') |-> "none"]
    /\ pc' = "map_wait"
    /\ UNCHANGED << poolStarted, poolAlive, worker, mapRaised >>
    /\ UNCHANGED << outcome, connInit, procInit, enumRes, docs, checked, logged,
                    cleanupCalls >>
    /\ UNCHANGED << hostVars, cfgVars, docVars >>

\* The handle worker w is at.
Current(w) == chunks[worker[w].chunk][worker[w].pos]

\* process(): the structured output of h is written.
ProcessWritesOutput(h) == output \cup {h}

\* A worker process takes the next batch from the task queue.
WorkerTake(w) ==
    /\ poolAlive
    /\ worker[w].chunk = 0
    /\ Len(taskqueue) > 0
    /\ worker' = [worker EXCEPT ![w] =
                     [chunk |-> Head(taskqueue), pos |-> 1, running |-> FALSE]]
    /\ taskqueue' = Tail(taskqueue)
    /\ UNCHANGED << poolStarted, poolAlive, submitted, chunks, chunkres, mapRaised >>
    /\ UNCHANGED << hostVars, cfgVars, runVars, docVars >>

\* mapstar: the worker calls doc_processor_fn on the next item of its batch.
WorkerStart(w) ==
    /\ poolAlive
    /\ worker[w].chunk # 0
    /\ ~worker[w].running
    /\ worker' = [worker EXCEPT ![w].running = TRUE]
    /\ status' = [status EXCEPT ![Current(w)] = "running"]
    /\ attempts' = [attempts EXCEPT ![Current(w)] = @ + 1]
    /\ UNCHANGED output
    /\ UNCHANGED << poolStarted, poolAlive, submitted, chunks, taskqueue, chunkres,
                    mapRaised >>
    /\ UNCHANGED << hostVars, cfgVars, runVars >>

\* doc_processor_fn returns: on to the next item, or the batch is done.
WorkerFinishOk(w) ==
    /\ poolAlive
    /\ worker[w].chunk # 0
    /\ worker[w].running
    /\ status' = [status EXCEPT ![Current(w)] = "done"]
    /\ output' = ProcessWritesOutput(Current(w))
    /\ IF worker[w].pos < Len(chunks[worker[w].chunk])
       THEN /\ worker' = [worker EXCEPT ![w].pos = @ + 1, ![w].running = FALSE]
            /\ UNCHANGED chunkres
       ELSE /\ worker' = [worker EXCEPT ![w] = IdleWorker]
            /\ chunkres' = [chunkres EXCEPT ![worker[w].chunk] = "ok"]
    /\ UNCHANGED attempts
    /\ UNCHANGED << poolStarted, poolAlive, submitted, chunks, taskqueue, mapRaised >>
    /\ UNCHANGED << hostVars, cfgVars, runVars >>

\* doc_processor_fn raises: list(map(...)) of mapstar stops there, the rest
\* of the batch is not run and the batch's result is the exception.
WorkerFinishFail(w) ==
    /\ poolAlive
    /\ worker[w].chunk # 0
    /\ worker[w].running
    /\ status' = [status EXCEPT ![Current(w)] = "failed"]
    /\ worker' = [worker EXCEPT ![w] = IdleWorker]
    /\ chunkres' = [chunkres EXCEPT ![worker[w].chunk] = "fail"]
    /\ UNCHANGED << output, attempts >>
    /\ UNCHANGED << poolStarted, poolAlive, submitted, chunks, taskqueue, mapRaised >>
    /\ UNCHANGED << hostVars, cfgVars, runVars >>

\* pool.map returns once every batch has a result (MapResult._set), and
\* re-raises the first exception if a batch failed.
MapReturn ==
    /\ pc = "map_wait"
    /\ \A c \in DOMAIN chunkres : chunkres[c] # "none"
    /\ mapRaised' = (\E c \in DOMAIN chunkres : chunkres[c] = "fail")
    /\ pc' = "pool_exit"
    /\ UNCHANGED << poolStarted, poolAlive, submitted, chunks, taskqueue, chunkres,
                    worker >>
    /\ UNCHANGED << outcome, connInit, procInit, enumRes, docs, checked, logged,
                    cleanupCalls >>
    /\ UNCHANGED << hostVars, cfgVars, docVars >>

\* Leaving the with block: Pool.__exit__ terminates the workers; an
\* exception of pool.map leaves run().
PoolExit ==
    /\ pc = "pool_exit"
    /\ poolAlive' = PoolAliveAfterWith
    /\ pc' = IF mapRaised THEN "done" ELSE "cleanup"
    /\ outcome' = IF mapRaised THEN "error" ELSE outcome
    /\ UNCHANGED << poolStarted, submitted, chunks, taskqueue, chunkres, worker,
                    mapRaised >>
    /\ UNCHANGED << connInit, procInit, enumRes, docs, checked, logged, cleanupCalls >>
    /\ UNCHANGED << hostVars, cfgVars, docVars >>

\* self.cleanup(): self.doc_connector.cleanup(); run() returns.
Cleanup ==
    /\ pc = "cleanup"
    /\ cleanupCalls' = cleanupCalls + 1
    /\ pc' = "done"
    /\ outcome' = "ok"
    /\ UNCHANGED << connInit, procInit, enumRes, docs, checked, logged >>
    /\ UNCHANGED << hostVars, cfgVars, poolVars, docVars >>

Next ==
    \/ ConnectorInitialize
    \/ ProcessorInitialize
    \/ GetIngestDocs
    \/ Filter
    \/ PoolStart
    \/ PoolMap
    \/ \E w \in DOMAIN worker : WorkerTake(w)
    \/ \E w \in DOMAIN worker : WorkerStart(w)
    \/ \E w \in DOMAIN worker : WorkerFinishOk(w)
    \/ \E w \in DOMAIN worker : WorkerFinishFail(w)
    \/ MapReturn
    \/ PoolExit
    \/ Cleanup

Spec == Init /\ [][Next]_vars

----------------------------------------------------------------------------
(* Vocabulary of the properties *)

\* The filtered set H' as the run's inputs define it: every enumerated handle
\* when reprocess is forced, else those without an output when the run began.
ExpectedHPrime ==
    IF reprocess THEN source
    ELSE SelectSeq(source, LAMBDA h : h \notin output0)

\* pool.map has returned or raised: the dispatch step is over.
DispatchEnded == poolStarted /\ pc \in {"pool_exit", "cleanup", "done"}

RunEnded == pc = "done"

NoFailure == \A h \in Handles : status[h] # "failed"

NothingProcessed == \A h \in Handles : attempts[h] = 0 /\ status[h] = "idle"

----------------------------------------------------------------------------
(* Properties *)

\* C1: once the dispatch step is over, if the processing function failed for
\* one dispatched handle, every other dispatched handle was still processed
\* to completion (it completed, or failed on its own).
C1_FailureContained ==
    DispatchEnded =>
        \A h \in Range(submitted) :
            (\E g \in Range(submitted) : g # h /\ status[g] = "failed")
                => status[h] \in {"done", "failed"}

\* C2: a run that reached dispatch has called doc_connector.cleanup exactly
\* once by the time it ends, however many handles failed.
C2_ReleaseOnceAfterDispatch ==
    (RunEnded /\ poolStarted) => cleanupCalls = 1

\* C3: a run that ended on an early abort (connector initialize, processor
\* initialize or enumeration failed) has called doc_connector.cleanup
\* exactly once.
C3_ReleaseOnEarlyAbort ==
    (RunEnded /\ (connInit = "failed" \/ procInit = "failed" \/ enumRes = "failed"))
        => cleanupCalls = 1

\* C4: without reprocess, a run whose filtered set is empty ends without
\* error and has called doc_connector.cleanup once.
C4_EmptyFilterReleases ==
    (RunEnded /\ ~reprocess /\ enumRes = "ok" /\ Len(ExpectedHPrime) = 0)
        => (cleanupCalls = 1 /\ outcome = "ok")

\* C5: after a run through the pool in which no handle failed, every handle
\* of H' was handed to the processing function exactly once and completed,
\* and no other handle was.
C5_Completeness ==
    (RunEnded /\ poolStarted /\ NoFailure) =>
        \A h \in Handles :
            IF h \in Range(ExpectedHPrime)
            THEN attempts[h] = 1 /\ status[h] = "done"
            ELSE attempts[h] = 0 /\ status[h] = "idle"

\* The case of C5: a run through the pool of at least two handles, with no
\* more workers than handles, ended with no failure.
C5_Witness ==
    /\ RunEnded /\ poolStarted /\ NoFailure
    /\ Len(submitted) >= 2
    /\ num_processes >= 2
    /\ num_processes <= Len(submitted)

\* C6: what pool.map is given is exactly H' (the handles without output, or
\* all of them under reprocess), nothing outside H' is ever processed, and a
\* run that returns without a pool had an empty H'.
C6_DispatchedIsHPrime ==
    /\ (poolStarted /\ pc \in {"map_wait", "pool_exit", "cleanup", "done"})
            => submitted = ExpectedHPrime
    /\ \A h \in Handles : attempts[h] > 0 => h \in Range(ExpectedHPrime)
    /\ (RunEnded /\ outcome = "ok" /\ ~poolStarted) => ExpectedHPrime = << >>

\* The cases of C6: without reprocess some handles were dropped and some
\* dispatched; with reprocess handles that have an output were dispatched.
C6_Witness ==
    /\ DispatchEnded
    /\ \/ (~reprocess /\ 0 < Len(submitted) /\ Len(submitted) < Len(source))
       \/ (reprocess /\ Len(submitted) > 0 /\ Range(submitted) \subseteq output0)

\* C7: if doc_connector.initialize() failed, the run has ended in error,
\* get_ingest_docs was never called, no pool was started and no handle was
\* processed.
C7_FailFastOnInit ==
    connInit = "failed" =>
        /\ RunEnded /\ outcome = "error"
        /\ procInit = "none" /\ enumRes = "none"
        /\ ~poolStarted /\ NothingProcessed

\* The case of C7: initialize failed for a source that has handles.
C7_Witness == connInit = "failed" /\ Len(source) > 0

\* C8: if get_ingest_docs failed, the run has ended in error with no
\* has_output check made, no pool started and no handle processed.
C8_EnumerationFailureAborts ==
    enumRes = "failed" =>
        /\ RunEnded /\ outcome = "error"
        /\ checked = {} /\ logged = {}
        /\ ~poolStarted /\ NothingProcessed

\* The case of C8: enumeration failed after both initializations succeeded,
\* for a source whose handles the filter would have checked.
C8_Witness ==
    /\ enumRes = "failed" /\ connInit = "ok" /\ procInit = "ok"
    /\ ~reprocess /\ Len(source) > 0

\* C9: a run whose connector initialize and enumeration succeeded ends in
\* the successful outcome, whether or not handles failed.
C9_RunSucceedsDespiteFailures ==
    (RunEnded /\ connInit = "ok" /\ enumRes = "ok") => outcome = "ok"

\* C10: the dispatch step ends only when every submitted handle has either
\* completed or failed.
C10_DispatchBlocks ==
    [][(pc = "map_wait" /\ pc' # "map_wait")
          => \A h \in Range(submitted) : status[h] \in {"done", "failed"}]_vars

----------------------------------------------------------------------------
(* A further run over the same source *)

\* After the first run, main() is invoked once more over the same source
\* with reprocess off: it builds a new MainProcess and calls run() again.
\* The connector enumerates the same handles, the outputs written so far
\* are still there, everything of the run itself starts afresh.
Rerun ==
    /\ RunEnded
    /\ runNo = 1
    /\ runNo' = runNo + 1
    /\ prev' = [ran |-> TRUE, reprocess |-> reprocess, outcome |-> outcome,
                allDone |-> \A h \in Range(ExpectedHPrime) : status[h] = "done",
                several |-> Cardinality({h \in Handles : status[h] = "done"}) >= 2]
    /\ reprocess' = FALSE
    /\ output0' = output
    /\ pc' = "start"
    /\ outcome' = "none"
    /\ connInit' = "none"
    /\ procInit' = "none"
    /\ enumRes' = "none"
    /\ docs' = << >>
    /\ checked' = {}
    /\ logged' = {}
    /\ cleanupCalls' = 0
    /\ poolStarted' = FALSE
    /\ poolAlive' = FALSE
    /\ submitted' = << >>
    /\ chunks' = << >>
    /\ taskqueue' = << >>
    /\ chunkres' = << >>
    /\ worker' = << >>
    /\ mapRaised' = FALSE
    /\ status' = [h \in Handles |-> "idle"]
    /\ attempts' = [h \in Handles |-> 0]
    /\ UNCHANGED << num_processes, source, output, mainVars >>

NextRerun == Next \/ Rerun

SpecRerun == Init /\ [][NextRerun]_vars

\* The run before this one had reprocess off and completed with every
\* handle of its H' processed successfully.
PrevRunSucceeded ==
    /\ runNo >= 2 /\ prev.ran
    /\ ~prev.reprocess /\ prev.outcome = "ok" /\ prev.allDone

\* C12: after such a run, a run with reprocess off over the same source
\* filters down to nothing: it processes no handle, starts no pool and, once
\* past the filter, has ended with an empty docs.
C12_SecondRunSkipsAll ==
    (PrevRunSucceeded /\ ~reprocess) =>
        /\ NothingProcessed /\ ~poolStarted /\ submitted = << >>
        /\ pc \notin {"pool", "map_call", "map_wait", "pool_exit", "cleanup"}
        /\ ((RunEnded /\ enumRes = "ok") => docs = None)

\* The case of C12: the first run processed at least two handles, and the
\* second run has been through its filter.
C12_Witness ==
    /\ PrevRunSucceeded /\ ~reprocess
    /\ prev.several
    /\ RunEnded /\ enumRes = "ok"

----------------------------------------------------------------------------
(* main() *)

runSide == << cfgVars, runVars, poolVars, docVars, runNo, prev >>

\* Lines 268-305: the warnings, and the default download_dir under the
\* cache path when --download-dir was not given.
MainDownloadDir ==
    /\ mpc = "main_start"
    /\ IF NeedsDefaultDir(opts)
       THEN /\ cacheCreated' = ~cacheExists
            /\ cacheExists' = TRUE
            /\ LET k == HashedSource(opts)
                   text == HashedText(opts, k)
                   dir == [root |-> CachePath, name |-> Fingerprint(text)]
               IN  IF k = "none"
                   THEN /\ mainOutcome' = "ValueError"
                        /\ mpc' = "main_exit"
                        /\ UNCHANGED << hashed, download_dir, mainLog >>
                   ELSE /\ hashed' = [kind |-> k, text |-> text]
                        /\ download_dir' = dir
                        /\ mainLog' = IF opts.preserve_downloads
                                      THEN mainLog \cup {"preserving_without_download_dir"}
                                      ELSE mainLog
                        /\ mpc' = "main_connector"
                        /\ UNCHANGED mainOutcome
       ELSE /\ download_dir' = [root |-> "", name |-> opts.download_dir[1]]
            /\ mainLog' = IF ~opts.preserve_downloads
                          THEN mainLog \cup {"download_dir_without_preserving"}
                          ELSE mainLog
            /\ mpc' = "main_connector"
            /\ UNCHANGED << cacheCreated, cacheExists, hashed, mainOutcome >>
    /\ UNCHANGED << opts, connector >>
    /\ UNCHANGED runSide

\* Lines 306-392: the connector of the first source option that is set, or
\* logger.error and sys.exit(1).
MainBuildConnector ==
    /\ mpc = "main_connector"
    /\ LET k == ConnectorSource(opts)
       IN  IF k = "none"
           THEN /\ mainLog' = mainLog \cup {"no_connector_option"}
                /\ mainOutcome' = "exit1"
                /\ mpc' = "main_exit"
                /\ UNCHANGED connector
           ELSE /\ connector' = [kind |-> k, download_dir |-> download_dir]
                /\ mpc' = "main_run"
                /\ UNCHANGED << mainLog, mainOutcome >>
    /\ UNCHANGED << opts, cacheExists, cacheCreated, hashed, download_dir >>
    /\ UNCHANGED runSide

\* Lines 394-400: MainProcess(...).run() is entered.
MainRun ==
    /\ mpc = "main_run"
    /\ mpc' = "main_running"
    /\ mainOutcome' = "run"
    /\ UNCHANGED << opts, cacheExists, cacheCreated, hashed, download_dir,
                    connector, mainLog >>
    /\ UNCHANGED runSide

\* run() is over: main() returns, or run()'s exception leaves main().
MainEnd ==
    /\ mpc = "main_running"
    /\ RunEnded
    /\ mpc' = "main_exit"
    /\ mainOutcome' = IF outcome = "ok" THEN "returned" ELSE "exception"
    /\ UNCHANGED << opts, cacheExists, cacheCreated, hashed, download_dir,
                    connector, mainLog >>
    /\ UNCHANGED runSide

\* The steps of run(), once main() has entered it.
RunOfMain == mpc = "main_running" /\ Next

\* main() invoked with any of the option combinations, over a source of one
\* document and a pool of one worker.
InitMain ==
    /\ opts \in Options
    /\ mpc = "main_start"
    /\ cacheExists \in BOOLEAN
    /\ cacheCreated = FALSE
    /\ hashed = NoHash
    /\ download_dir = NoDir
    /\ connector = NoConnector
    /\ mainOutcome = "none"
    /\ mainLog = {}
    /\ reprocess \in BOOLEAN
    /\ num_processes = 1
    /\ source = Iota(1)
    /\ output = {}
    /\ output0 = output
    /\ RunFresh

NextMain ==
    \/ MainDownloadDir
    \/ MainBuildConnector
    \/ MainRun
    \/ MainEnd
    \/ RunOfMain

SpecMain == InitMain /\ [][NextMain]_vars

----------------------------------------------------------------------------
(* Properties of main() *)

SourceKinds == {"s3", "github", "gitlab", "reddit", "wikipedia", "drive"}

\* The option that selects the source of kind k.
SourceOption(k) ==
    CASE k = "s3" -> opts.s3_url
      [] k = "github" -> opts.github_url
      [] k = "gitlab" -> opts.gitlab_url
      [] k = "reddit" -> opts.subreddit_name
      [] k = "wikipedia" -> opts.wikipedia_page_title
      [] k = "drive" -> opts.drive_id

SetSources == {k \in SourceKinds : SourceOption(k) # Unset}

\* The identity of the source of kind k as one string: the option's value,
\* for the git sources followed by "_" and the branch ("None" when unset).
IdentityText(k) ==
    IF k \in {"github", "gitlab"}
    THEN SourceOption(k)[1] \o "_" \o
            (IF opts.git_branch = Unset THEN "None" ELSE opts.git_branch[1])
    ELSE SourceOption(k)[1]

\* C15: with zero or more than one source option set, main() creates no
\* cache directory, constructs no connector and never enters run(), and when
\* it has ended it ended in a configuration error.
C15_ConfigErrorUnlessOneSource ==
    Cardinality(SetSources) # 1 =>
        /\ ~cacheCreated
        /\ connector = NoConnector
        /\ mpc \notin {"main_run", "main_running"}
        /\ pc = "start"
        /\ mpc = "main_exit" => mainOutcome \in {"ValueError", "exit1"}

\* C16: the download_dir of the connector's config is the --download-dir
\* given, unchanged, or else the cache path joined with the fingerprint of
\* the identity of the connector's own source (URL and branch for git),
\* whatever the other options are.
C16_DownloadDirHandedOver ==
    connector # NoConnector =>
        connector.download_dir =
            IF opts.download_dir # Unset
            THEN [root |-> "", name |-> opts.download_dir[1]]
            ELSE [root |-> CachePath,
                  name |-> Fingerprint(IdentityText(connector.kind))]

\* The case of C16: a git connector with a branch and no --download-dir,
\* main() run to its end.
C16_Witness ==
    /\ connector.kind = "gitlab"
    /\ opts.download_dir = Unset /\ opts.git_branch # Unset
    /\ opts.preserve_downloads
    /\ mpc = "main_exit"

\* C17: the fingerprint derived for a git source differs from the one any
\* other (URL, branch) pair would get, the unset branch included.
C17_DistinctIdentitiesDistinctDirs ==
    hashed.kind \in {"github", "gitlab"} =>
        \A u \in GitUrls, b \in Opt(GitBranches) :
            << u, b >> # << SourceOption(hashed.kind)[1], opts.git_branch >>
                => Fingerprint(GitIdentity(u, b)) # download_dir.name

\* C18: without --download-dir, the source whose identity was hashed is the
\* source the connector was constructed for, and the connector's directory
\* is named by the fingerprint of that source's identity.
C18_HashedIsConstructed ==
    (connector # NoConnector /\ opts.download_dir = Unset) =>
        /\ hashed.kind = connector.kind
        /\ hashed.text = IdentityText(connector.kind)
        /\ connector.download_dir.name = Fingerprint(hashed.text)

\* The case of C18: several source options set, github and gitlab among
\* them, and no --download-dir.
C18_Witness ==
    /\ connector # NoConnector /\ opts.download_dir = Unset
    /\ {"github", "gitlab", "drive"} \subseteq SetSources
    /\ "s3" \notin SetSources

----------------------------------------------------------------------------
(* Properties of the pool and of the release *)

Running == {h \in Handles : status[h] = "running"}

\* Workers in a call of doc_processor_fn.
BusyWorkers == {w \in DOMAIN worker : worker[w].running}

\* C11: at every moment at most num_processes handles are being processed;
\* each worker is in at most one call (distinct busy workers are at distinct
\* handles, and every handle being processed is some busy worker's), and a
\* handle not yet taken waits in a batch that is queued or held by a worker.
C11_BoundedParallelism ==
    /\ Cardinality(Running) <= num_processes
    /\ Len(worker) <= num_processes
    /\ Running = {Current(w) : w \in BusyWorkers}
    /\ \A v, w \in BusyWorkers : v # w => Current(v) # Current(w)
    /\ (pc = "map_wait" /\ ~(\E c \in DOMAIN chunkres : chunkres[c] = "fail")) =>
          \A h \in Range(submitted) :
              status[h] = "idle" =>
                  \E c \in DOMAIN chunks :
                      /\ h \in Range(chunks[c])
                      /\ \/ c \in Range(taskqueue)
                         \/ \E w \in DOMAIN worker : worker[w].chunk = c

\* The case of C11: more handles than workers, every worker busy and
\* handles still waiting.
C11_Witness ==
    /\ Len(submitted) > num_processes
    /\ Cardinality(Running) = num_processes
    /\ num_processes >= 2
    /\ Len(taskqueue) > 0

\* C13: with reprocess off, once the filter has run over handles that all
\* have their output, the run has returned without error: no pool was
\* started, no handle was handed to the processing function, and the
\* "nothing to do" message was logged.
C13_AllOutputsNothingToDo ==
    (~reprocess /\ enumRes = "ok" /\ pc # "filter" /\ Range(source) \subseteq output0)
        => /\ RunEnded /\ outcome = "ok"
           /\ ~poolStarted /\ NothingProcessed /\ submitted = << >>
           /\ checked = Range(source)
           /\ "all_docs_have_outputs" \in logged

\* The case of C13: at least two handles, all with outputs, filtered.
C13_Witness ==
    /\ ~reprocess /\ enumRes = "ok" /\ pc # "filter"
    /\ Len(source) >= 2 /\ Range(source) \subseteq output0

\* C14 as stated: a run over zero enumerated handles ends without error
\* and without a worker pool having been started, reprocess or not.
C14_ZeroHandlesNoPool ==
    (RunEnded /\ enumRes = "ok" /\ Len(source) = 0)
        => (outcome = "ok" /\ ~poolStarted /\ NothingProcessed)

\* C14 as amended: a run over zero enumerated handles hands nothing to the
\* processing function and ends without error; a pool is started exactly
\* when reprocess is forced, and pool.map then gets an empty list.
C14_ZeroHandlesNoDispatch ==
    (enumRes = "ok" /\ Len(source) = 0)
        => /\ NothingProcessed /\ submitted = << >> /\ chunks = << >>
           /\ outcome # "error"
           /\ poolStarted => reprocess
           /\ RunEnded => (outcome = "ok" /\ (poolStarted <=> reprocess))

\* The case of C14: zero handles under reprocess, run through the pool.
C14_Witness ==
    /\ RunEnded /\ enumRes = "ok" /\ Len(source) = 0
    /\ reprocess /\ poolStarted /\ cleanupCalls = 1

\* C19: doc_connector.cleanup is called at most once, and when it has been
\* called both initializations and the enumeration had succeeded, the pool
\* had been started and terminated, and no handle is being processed or
\* still to be taken by a worker; the run has ended.
C19_ReleaseLastAndOnce ==
    /\ cleanupCalls <= 1
    /\ cleanupCalls = 1 =>
          /\ connInit = "ok" /\ procInit = "ok" /\ enumRes = "ok"
          /\ poolStarted /\ ~poolAlive
          /\ Running = {} /\ BusyWorkers = {}
          /\ \A w \in DOMAIN worker : worker[w] = IdleWorker
          /\ taskqueue = << >>
          /\ RunEnded

\* The case of C19: the connector released after a pool run of two or more
\* handles.
C19_Witness == cleanupCalls = 1 /\ Len(submitted) >= 2

====
